---- MODULE Spec2Model ----
(***************************************************************************)
(* Smart Task Allocator (backend/server.js): the in-memory store teamData, *)
(* the greedy allocator allocateTasks with its scorer calculateMatchScore, *)
(* and the request handlers that read and change the store.                *)
(*                                                                         *)
(* Node runs one handler at a time to completion, so every handler is one  *)
(* atomic action.  Levels, hours, workloads and capacities are integers    *)
(* here; what the source computes from them with / * and - is computed in  *)
(* double precision, rounding after every operation as the source does.    *)
(***************************************************************************)
EXTENDS Integers, Sequences, FiniteSets, TLC

VARIABLES
    members,    \* teamData.members: the stored member objects, in order
    tasks,      \* teamData.tasks: the stored task objects, in order
    now,        \* the value Date.now() returns to the running handler
    response,   \* the body of the response to the last request
    steps       \* the loop iterations of the last allocateTasks run: for
                \* each task of sortedTasks the locals of that iteration

vars == <<members, tasks, now, response, steps>>

\* null is a value of its own: it equals no number, no string, no list and
\* no map.  A field that holds either null or an id (task.assignedTo,
\* memberId of a record) holds <<id>> for an id other than null, so that the
\* field can be compared with null and with <<id>> whatever the id is.
null == <<<<>>, <<>>>>

\* v === null, for a value v of any kind.
IsNull(v) == ToString(v) = ToString(null)

\* What a nullable id field holds for the id.
Wrap(id) == IF IsNull(id) THEN null ELSE <<id>>

----------------------------------------------------------------------------
\* Bounds of the model.

\* Members the store may hold (the three loaded ones and those added).
MaxMembers == 4
\* Tasks the store may hold (the three loaded ones and those added).
MaxTasks == 4
\* Milliseconds the clock may advance after start-up.
MaxElapsed == 1

----------------------------------------------------------------------------
\* Small helpers on numbers and sequences.

Range(s) == {s[i] : i \in DOMAIN s}

\* A deadline is written <<year, month, day>> for the string "yyyy-mm-dd".
\* new Date(string) yields the UTC midnight of that civil date; Date gives it
\* in days since 1970-01-01 (the source's milliseconds divided by 86400000,
\* which keeps the sign of every difference of two dates).
Date(d) ==
    LET y   == IF d[2] <= 2 THEN d[1] - 1 ELSE d[1]
        era == y \div 400
        yoe == y - era * 400
        mp  == IF d[2] > 2 THEN d[2] - 3 ELSE d[2] + 9
        doy == (153 * mp + 2) \div 5 + d[3] - 1
        doe == yoe * 365 + yoe \div 4 - yoe \div 100 + doy
    IN  era * 146097 + doe - 719468

\* JavaScript numbers.  A Number is an IEEE 754 double; every arithmetic
\* operation yields the exact result rounded to 53 significant bits, ties to
\* the even neighbour.  A double is written here as the record
\*   [nan, inf, neg, mant, exp]  for  (-1)^neg * mant * 2^exp,
\* mant a natural number of any size given by its digits in base Base, least
\* significant first, odd unless the number is 0 (mant <<>>, exp 0); nan
\* marks NaN and inf marks Infinity (neg) and -Infinity.  -0 is not told
\* from 0.  The integers of the model are below 2^30 in absolute value.

Base == 32768

Digit(a, i) == IF i \in DOMAIN a THEN a[i] ELSE 0

RECURSIVE Trim(_)
Trim(a) ==
    IF a # <<>> /\ a[Len(a)] = 0 THEN Trim(SubSeq(a, 1, Len(a) - 1)) ELSE a

RECURSIVE BigOf(_)
BigOf(n) == IF n = 0 THEN <<>> ELSE <<n % Base>> \o BigOf(n \div Base)

RECURSIVE BigToInt(_, _)
BigToInt(a, i) ==
    IF i > Len(a) THEN 0 ELSE a[i] + Base * BigToInt(a, i + 1)

\* a * k + carry from digit i on, for 0 <= k <= Base.
RECURSIVE BigTimes(_, _, _, _)
BigTimes(a, k, i, carry) ==
    IF i > Len(a) THEN BigOf(carry)
    ELSE LET p == a[i] * k + carry
         IN  <<p % Base>> \o BigTimes(a, k, i + 1, p \div Base)

\* Digits i down to 1 of a divided by d, 0 < d < Base, with the remainder r
\* of the digits above them: the quotient digits and the remainder.
RECURSIVE BigDivFrom(_, _, _, _)
BigDivFrom(a, d, i, r) ==
    IF i = 0 THEN [q |-> <<>>, r |-> r]
    ELSE LET x    == r * Base + a[i]
             rest == BigDivFrom(a, d, i - 1, x % d)
         IN  [q |-> Append(rest.q, x \div d), r |-> rest.r]

BigDiv(a, d) ==
    LET res == BigDivFrom(a, d, Len(a), 0)
    IN  [q |-> Trim(res.q), r |-> res.r]

RECURSIVE BigAddFrom(_, _, _, _)
BigAddFrom(a, b, i, carry) ==
    IF i > Len(a) /\ i > Len(b) THEN BigOf(carry)
    ELSE LET s == Digit(a, i) + Digit(b, i) + carry
         IN  <<s % Base>> \o BigAddFrom(a, b, i + 1, s \div Base)

\* a - b for a >= b.
RECURSIVE BigSubFrom(_, _, _, _)
BigSubFrom(a, b, i, borrow) ==
    IF i > Len(a) THEN <<>>
    ELSE LET s == a[i] - Digit(b, i) - borrow
         IN  IF s < 0 THEN <<s + Base>> \o BigSubFrom(a, b, i + 1, 1)
                      ELSE <<s>> \o BigSubFrom(a, b, i + 1, 0)

\* -1, 0 or 1 as a is below, equal to or above b, comparing from digit i down.
RECURSIVE BigCmpFrom(_, _, _)
BigCmpFrom(a, b, i) ==
    IF i = 0 THEN 0
    ELSE IF a[i] # b[i] THEN (IF a[i] < b[i] THEN -1 ELSE 1)
    ELSE BigCmpFrom(a, b, i - 1)

BigCmp(a, b) ==
    IF Len(a) # Len(b) THEN (IF Len(a) < Len(b) THEN -1 ELSE 1)
    ELSE BigCmpFrom(a, b, Len(a))

RECURSIVE SmallBits(_)
SmallBits(n) == IF n = 0 THEN 0 ELSE 1 + SmallBits(n \div 2)

BitLen(a) == IF a = <<>> THEN 0 ELSE 15 * (Len(a) - 1) + SmallBits(a[Len(a)])

ShiftLeft(a, s) ==
    IF a = <<>> THEN <<>>
    ELSE [i \in 1..(s \div 15) |-> 0] \o BigTimes(a, 2 ^ (s % 15), 1, 0)

\* a shifted right by s bits: the quotient q, and half = -1, 0 or 1 as the
\* bits shifted out (followed by further non-zero bits when sticky) are
\* below, equal to or above one half of the last place of q.
ShiftRight(a, s, sticky) ==
    LET w    == s \div 15
        b    == s % 15
        dv   == BigDiv(SubSeq(a, w + 1, Len(a)), 2 ^ b)
        top  == IF b > 0 THEN dv.r ELSE Digit(a, w)
        h    == IF b > 0 THEN 2 ^ (b - 1) ELSE Base \div 2
        rest == IF b > 0 THEN w ELSE w - 1
        more == sticky \/ \E i \in 1..rest : Digit(a, i) # 0
    IN  [q |-> dv.q,
         half |-> IF s = 0 THEN (IF sticky THEN -1 ELSE -2)
                  ELSE IF top > h \/ (top = h /\ more) THEN 1
                  ELSE IF top = h THEN 0
                  ELSE -1]

Zero == [nan |-> FALSE, inf |-> FALSE, neg |-> FALSE, mant |-> <<>>, exp |-> 0]
NaN  == [nan |-> TRUE, inf |-> FALSE, neg |-> FALSE, mant |-> <<>>, exp |-> 0]

\* Infinity, and -Infinity when neg.
Infinity(neg) ==
    [nan |-> FALSE, inf |-> TRUE, neg |-> neg, mant |-> <<>>, exp |-> 0]

RECURSIVE LowZeroDigits(_, _)
LowZeroDigits(a, i) == IF a[i] # 0 THEN i - 1 ELSE LowZeroDigits(a, i + 1)

RECURSIVE LowZeroBits(_)
LowZeroBits(n) == IF n % 2 = 1 THEN 0 ELSE 1 + LowZeroBits(n \div 2)

\* The double (-1)^neg * n * 2^e, for n of at most 53 bits.
Double(neg, n, e) ==
    IF n = <<>> THEN Zero
    ELSE LET w == LowZeroDigits(n, 1)
             m == SubSeq(n, w + 1, Len(n))
             z == LowZeroBits(m[1])
         IN  [nan |-> FALSE, inf |-> FALSE, neg |-> neg,
              mant |-> IF z = 0 THEN m ELSE BigDiv(m, 2 ^ z).q,
              exp |-> e + 15 * w + z]

\* The double nearest to (-1)^neg * n * 2^e (a little above it when sticky),
\* the even one of two equally near.
Nearest(neg, n, e, sticky) ==
    LET len == BitLen(n)
    IN  IF len <= 53 THEN Double(neg, n, e)
        ELSE LET sh == ShiftRight(n, len - 53, sticky)
                 up == sh.half = 1 \/ (sh.half = 0 /\ sh.q[1] % 2 = 1)
             IN  Double(neg,
                        IF up THEN BigAddFrom(sh.q, <<1>>, 1, 0) ELSE sh.q,
                        e + len - 53)

Abs(n) == IF n < 0 THEN -n ELSE n

\* The Number of the integer n.
Num(n) == Double(n < 0, BigOf(Abs(n)), 0)

\* k further binary places of r / d, for 0 <= r < d: the places added to q,
\* and the remainder.
RECURSIVE DivBits(_, _, _, _)
DivBits(r, d, k, q) ==
    IF k = 0 THEN [q |-> q, r |-> r]
    ELSE IF 2 * r >= d THEN DivBits(2 * r - d, d, k - 1, 2 * q + 1)
    ELSE DivBits(2 * r, d, k - 1, 2 * q)

\* The next digit in base Base of r / d, for 0 <= r < d, and the remainder.
DivDigit(r, d) ==
    IF d <= 2 * Base
    THEN [q |-> (r * Base) \div d, r |-> (r * Base) % d]
    ELSE DivBits(r, d, 15, 0)

\* The first k digits in base Base of r / d after the point, for
\* 0 <= r < d, least significant first, and the remainder; fewer digits
\* when the division comes out even before.
RECURSIVE DivDigits(_, _, _)
DivDigits(r, d, k) ==
    IF k = 0 \/ r = 0 THEN [q |-> <<>>, r |-> r]
    ELSE LET s    == DivDigit(r, d)
             rest == DivDigits(s.r, d, k - 1)
         IN  [q |-> Append(rest.q, s.q), r |-> rest.r]

\* n / d on integers: 0 / 0 is NaN, any other n / 0 is Infinity or
\* -Infinity.  Otherwise the quotient is worked out to 90 binary places at
\* most, which leaves more than 53 significant bits to round.
Quotient(n, d) ==
    IF d = 0 THEN (IF n = 0 THEN NaN ELSE Infinity(n < 0))
    ELSE LET frac == DivDigits(Abs(n) % Abs(d), Abs(d), 6)
         IN  Nearest((n < 0) # (d < 0),
                     Trim(frac.q \o BigOf(Abs(n) \div Abs(d))),
                     -15 * Len(frac.q), frac.r # 0)

\* x * k for a double x and an integer k, |k| <= Base.
Times(x, k) ==
    IF x.nan THEN NaN
    ELSE IF x.inf
    THEN (IF k = 0 THEN NaN ELSE Infinity(x.neg # (k < 0)))
    ELSE Nearest(x.neg # (k < 0), Trim(BigTimes(x.mant, Abs(k), 1, 0)),
                 x.exp, FALSE)

\* -1, 0 or 1 as |x| is below, equal to or above |y|, for doubles other
\* than 0.
CmpAbs(x, y) ==
    LET e == IF x.exp < y.exp THEN x.exp ELSE y.exp
    IN  BigCmp(ShiftLeft(x.mant, x.exp - e), ShiftLeft(y.mant, y.exp - e))

Sign(x) ==
    IF x.mant = <<>> /\ ~ x.inf THEN 0 ELSE IF x.neg THEN -1 ELSE 1

\* x > y; false when either is NaN.
Gt(x, y) ==
    /\ ~ x.nan /\ ~ y.nan
    /\ IF Sign(x) # Sign(y) THEN Sign(x) > Sign(y)
       ELSE IF Sign(x) = 0 THEN FALSE
       ELSE IF x.inf \/ y.inf
       THEN (IF Sign(x) = 1 THEN x.inf /\ ~ y.inf ELSE y.inf /\ ~ x.inf)
       ELSE IF Sign(x) = 1 THEN CmpAbs(x, y) = 1
       ELSE CmpAbs(x, y) = -1

\* x - y; Infinity - Infinity is NaN.
Minus(x, y) ==
    IF x.nan \/ y.nan THEN NaN
    ELSE IF x.inf THEN (IF y.inf /\ x.neg = y.neg THEN NaN ELSE x)
    ELSE IF y.inf THEN Infinity(~ y.neg)
    ELSE IF y.mant = <<>> THEN x
    ELSE IF x.mant = <<>> THEN [y EXCEPT !.neg = ~ @]
    ELSE LET e == IF x.exp < y.exp THEN x.exp ELSE y.exp
             X == ShiftLeft(x.mant, x.exp - e)
             Y == ShiftLeft(y.mant, y.exp - e)
             c == BigCmp(X, Y)
         IN  IF x.neg # y.neg
             THEN Nearest(x.neg, BigAddFrom(X, Y, 1, 0), e, FALSE)
             ELSE IF c = 0 THEN Zero
             ELSE IF c = 1
             THEN Nearest(x.neg, Trim(BigSubFrom(X, Y, 1, 0)), e, FALSE)
             ELSE Nearest(~ x.neg, Trim(BigSubFrom(Y, X, 1, 0)), e, FALSE)

\* Math.max(0, x): NaN when x is NaN.
Max0(x) == IF x.nan THEN x ELSE IF x.neg THEN Zero ELSE x

\* Math.round: the nearest integer, a half rounding towards plus infinity.
\* The three Numbers that are no integers come out as their names.
Round(x) ==
    IF x.nan THEN "NaN"
    ELSE IF x.inf THEN (IF x.neg THEN "-Infinity" ELSE "Infinity")
    ELSE IF x.exp >= 0
    THEN Sign(x) * BigToInt(ShiftLeft(x.mant, x.exp), 1)
    ELSE LET sh == ShiftRight(x.mant, - x.exp, FALSE)
             q  == BigToInt(sh.q, 1)
         IN  IF x.neg THEN - (q + (IF sh.half = 1 THEN 1 ELSE 0))
                      ELSE q + (IF sh.half >= 0 THEN 1 ELSE 0)

----------------------------------------------------------------------------
\* The sample data the server starts with.

teamData ==
    [members |-> <<
        [id |-> 1, name |-> "Alice Johnson",
         skills |-> <<"React", "JavaScript", "CSS">>,
         skillLevels |-> ("React" :> 8 @@ "JavaScript" :> 9 @@ "CSS" :> 7),
         currentWorkload |-> 0, maxCapacity |-> 40],
        [id |-> 2, name |-> "Bob Smith",
         skills |-> <<"Node.js", "JavaScript", "MongoDB">>,
         skillLevels |-> ("Node.js" :> 7 @@ "JavaScript" :> 8 @@ "MongoDB" :> 6),
         currentWorkload |-> 0, maxCapacity |-> 35],
        [id |-> 3, name |-> "Carol Davis",
         skills |-> <<"Python", "React", "JavaScript">>,
         skillLevels |-> ("Python" :> 9 @@ "React" :> 6 @@ "JavaScript" :> 8),
         currentWorkload |-> 0, maxCapacity |-> 45] >>,
     tasks |-> <<
        [id |-> 1, title |-> "Build Login Component",
         requiredSkills |-> <<"React", "JavaScript">>,
         estimatedHours |-> 8, priority |-> "high",
         deadline |-> <<2025, 8, 10>>, assignedTo |-> null],
        [id |-> 2, title |-> "Setup Database Schema",
         requiredSkills |-> <<"MongoDB", "Node.js">>,
         estimatedHours |-> 12, priority |-> "medium",
         deadline |-> <<2025, 8, 12>>, assignedTo |-> null],
        [id |-> 3, title |-> "Create API Documentation",
         requiredSkills |-> <<"JavaScript", "Node.js">>,
         estimatedHours |-> 6, priority |-> "low",
         deadline |-> <<2025, 8, 15>>, assignedTo |-> null] >>]

----------------------------------------------------------------------------
\* calculateMatchScore: how well a member matches a task.

\* What a read of a property that an object does not have itself finds on
\* Object.prototype, each as the text it becomes when added to a number or
\* a string.
ObjectPrototype ==
    [constructor |-> "function Object() { [native code] }",
     toString |-> "function toString() { [native code] }",
     toLocaleString |-> "function toLocaleString() { [native code] }",
     valueOf |-> "function valueOf() { [native code] }",
     hasOwnProperty |-> "function hasOwnProperty() { [native code] }",
     isPrototypeOf |-> "function isPrototypeOf() { [native code] }",
     propertyIsEnumerable |->
         "function propertyIsEnumerable() { [native code] }",
     __defineGetter__ |-> "function __defineGetter__() { [native code] }",
     __defineSetter__ |-> "function __defineSetter__() { [native code] }",
     __lookupGetter__ |-> "function __lookupGetter__() { [native code] }",
     __lookupSetter__ |-> "function __lookupSetter__() { [native code] }",
     __proto__ |-> "[object Object]"]

\* member.skillLevels[requiredSkill] is found on Object.prototype: the map
\* has no such key of its own and the name is one of the inherited ones.
Inherited(member, requiredSkill) ==
    /\ requiredSkill \notin DOMAIN member.skillLevels
    /\ requiredSkill \in DOMAIN ObjectPrototype

\* member.skillLevels[requiredSkill] used as a condition: a level of the map
\* other than 0, or an inherited function or object.
HasSkill(member, requiredSkill) ==
    IF requiredSkill \in DOMAIN member.skillLevels
    THEN member.skillLevels[requiredSkill] # 0
    ELSE Inherited(member, requiredSkill)

\* What += appends once skillScore is a string.
SkillText(member, requiredSkill) ==
    IF Inherited(member, requiredSkill)
    THEN ObjectPrototype[requiredSkill]
    ELSE ToString(member.skillLevels[requiredSkill])

\* The loop from position i on after an inherited value has been added:
\* skillScore is a string and every further += appends to it.
RECURSIVE SkillMatchText(_, _, _, _, _)
SkillMatchText(member, required, i, skillScore, skillCount) ==
    IF i > Len(required)
    THEN [skillScore |-> skillScore, skillCount |-> skillCount]
    ELSE IF HasSkill(member, required[i])
         THEN SkillMatchText(member, required, i + 1,
                             skillScore \o SkillText(member, required[i]),
                             skillCount + 1)
         ELSE SkillMatchText(member, required, i + 1, skillScore, skillCount)

\* The loop over task.requiredSkills from position i on, with the running
\* skillScore and skillCount.
RECURSIVE SkillMatch(_, _, _, _, _)
SkillMatch(member, required, i, skillScore, skillCount) ==
    IF i > Len(required)
    THEN [skillScore |-> skillScore, skillCount |-> skillCount]
    ELSE IF ~ HasSkill(member, required[i])
         THEN SkillMatch(member, required, i + 1, skillScore, skillCount)
         ELSE IF Inherited(member, required[i])
         THEN SkillMatchText(member, required, i + 1,
                             ToString(skillScore)
                                 \o SkillText(member, required[i]),
                             skillCount + 1)
         ELSE SkillMatch(member, required, i + 1,
                         skillScore + member.skillLevels[required[i]],
                         skillCount + 1)

\* Variant: the summed levels are not divided by the number of matches.
FinalScore_NoAverage(member, skillScore, skillCount) ==
    Minus(Times(Num(skillScore), 10),
          Times(Quotient(member.currentWorkload, member.maxCapacity), 20))

\* avgSkillLevel * 10 - workloadPenalty, where
\* avgSkillLevel = skillScore / skillCount and
\* workloadPenalty = currentWorkload / maxCapacity * 20.
FinalScore(member, skillScore, skillCount) ==
    Minus(Times(Quotient(skillScore, skillCount), 10),
          Times(Quotient(member.currentWorkload, member.maxCapacity), 20))

\* task.requiredSkills cannot be iterated: it is undefined or null.  (A
\* number there fails the same way; such a task is kept here without the
\* field.)
NotIterable(task) ==
    \/ "requiredSkills" \notin DOMAIN task
    \/ IsNull(task.requiredSkills)

\* The call raises a TypeError: task.requiredSkills cannot be iterated, or
\* there is a first required skill to look up and the member's skillLevels
\* is undefined or null.
Throws(member, task) ==
    \/ NotIterable(task)
    \/ /\ Len(task.requiredSkills) > 0
       /\ \/ "skillLevels" \notin DOMAIN member
          \/ IsNull(member.skillLevels)

\* The message of that TypeError, which names the value that was read from.
ThrowMessage(member, task) ==
    IF NotIterable(task)
    THEN "task.requiredSkills is not iterable"
    ELSE "Cannot read properties of "
             \o (IF "skillLevels" \notin DOMAIN member
                 THEN "undefined" ELSE "null")
             \o " (reading '" \o task.requiredSkills[1] \o "')"

\* The score of a call that returns.  A skillScore that has become a string
\* makes skillScore / skillCount, and with it the result, NaN.
calculateMatchScore(member, task) ==
    LET m == SkillMatch(member, task.requiredSkills, 1, 0, 0)
    IN  IF m.skillCount = 0
        THEN Zero
        ELSE IF \E i \in DOMAIN task.requiredSkills :
                    Inherited(member, task.requiredSkills[i])
        THEN NaN
        ELSE Max0(FinalScore(member, m.skillScore, m.skillCount))

----------------------------------------------------------------------------
\* allocateTasks: the greedy allocation.

\* Variant: the workloads of the previous run are kept.
ResetWorkloads_Kept(ms) == ms

\* members.forEach(member => member.currentWorkload = 0)
ResetWorkloads(ms) ==
    [j \in DOMAIN ms |-> [ms[j] EXCEPT !.currentWorkload = 0]]

priorityOrder == [high |-> 3, medium |-> 2, low |-> 1]

\* Variant: the priorities subtracted the other way round.
Compare_Ascending(a, b) ==
    IF priorityOrder[a.priority] # priorityOrder[b.priority]
    THEN priorityOrder[a.priority] - priorityOrder[b.priority]
    ELSE Date(a.deadline) - Date(b.deadline)

\* The comparator of the sort: negative when a goes before b.
Compare(a, b) ==
    IF priorityOrder[a.priority] # priorityOrder[b.priority]
    THEN priorityOrder[b.priority] - priorityOrder[a.priority]
    ELSE Date(a.deadline) - Date(b.deadline)

\* Array.prototype.sort is stable: x goes before the first element that the
\* comparator puts strictly after it.  order and the result are sequences of
\* positions in ts.
RECURSIVE InsertSorted(_, _, _, _)
InsertSorted(ts, order, x, i) ==
    IF i > Len(order) THEN Append(order, x)
    ELSE IF Compare(ts[x], ts[order[i]]) < 0
         THEN SubSeq(order, 1, i - 1) \o <<x>> \o SubSeq(order, i, Len(order))
         ELSE InsertSorted(ts, order, x, i + 1)

RECURSIVE SortFrom(_, _, _)
SortFrom(ts, order, x) ==
    IF x > Len(ts) THEN order
    ELSE SortFrom(ts, InsertSorted(ts, order, x, 1), x + 1)

\* Variant: the sort orders the list it is handed.
TasksAfterSort_InPlace(ts, order) == [k \in DOMAIN ts |-> ts[order[k]]]

\* [...tasks]: the sort orders a copy, so the list handed in keeps its order.
TasksAfterSort(ts, order) == ts

\* [...tasks].sort(...): the positions of the tasks in processing order.
sortedTasks(ts) == SortFrom(ts, <<>>, 1)

\* Variant: a member that the task would fill exactly is skipped too.
CanTake_BelowOnly(member, task) ==
    ~ (member.currentWorkload + task.estimatedHours >= member.maxCapacity)

\* The capacity check that lets a member be considered for a task.
CanTake(member, task) ==
    ~ (member.currentWorkload + task.estimatedHours > member.maxCapacity)

\* Variant: a later member with the same score replaces the best one.
Better_OrEqual(score, bestScore) == ~ Gt(bestScore, score)

\* The comparison that makes a member the best one so far.
Better(score, bestScore) == Gt(score, bestScore)

\* The one element of a set.  { e : x \in {v} } is e with x standing for the
\* value of v, so Only of it is e with v worked out once.
Only(S) == CHOOSE x \in S : TRUE

\* The loop over the members from position j on; best holds bestMember (a
\* position in ms, 0 for null) and bestScore; threw tells that a call of
\* calculateMatchScore raised, which ends the loop, and error is the message.
RECURSIVE FindBest(_, _, _, _)
FindBest(ms, task, j, best) ==
    IF j > Len(ms) THEN best
    ELSE IF ~ CanTake(ms[j], task)
         THEN FindBest(ms, task, j + 1, best)
         ELSE IF Throws(ms[j], task)
         THEN [best EXCEPT !.threw = TRUE,
                           !.error = ThrowMessage(ms[j], task)]
         ELSE Only({ IF Better(score, best.bestScore)
                     THEN FindBest(ms, task, j + 1,
                                   [best EXCEPT !.bestMember = j,
                                                 !.bestScore = score])
                     ELSE FindBest(ms, task, j + 1, best)
                     : score \in {calculateMatchScore(ms[j], task)} })

\* Variant: a best score of 0 is enough.
Accepts_ZeroScore(best) == best.bestMember # 0 /\ ~ Gt(Zero, best.bestScore)

\* The condition under which the task is given to bestMember.
Accepts(best) == best.bestMember # 0 /\ Gt(best.bestScore, Zero)

AssignedRecord(task, bestMember, bestScore) ==
    [taskId |-> task.id, taskTitle |-> task.title,
     memberId |-> Wrap(bestMember.id), memberName |-> bestMember.name,
     matchScore |-> Round(bestScore),
     estimatedHours |-> task.estimatedHours]

UnassignedRecord(task) ==
    [taskId |-> task.id, taskTitle |-> task.title,
     memberId |-> null, memberName |-> "Unassigned",
     matchScore |-> 0,
     estimatedHours |-> task.estimatedHours,
     reason |-> "No available member with required skills"]

\* Variant: the hours of the task replace the workload.
AddHours_Overwrites(member, task) ==
    [member EXCEPT !.currentWorkload = task.estimatedHours]

\* bestMember.currentWorkload += task.estimatedHours
AddHours(member, task) ==
    [member EXCEPT !.currentWorkload = @ + task.estimatedHours]

Workloads(ms) == [j \in DOMAIN ms |-> ms[j].currentWorkload]

\* One iteration of  for (const task of sortedTasks):  t is the position of
\* the task in st.tasks.  An exception leaves the iteration with nothing
\* pushed and nothing assigned.
AllocStep(st, t) == Only({
    LET task == st.tasks[t]
        b    == best.bestMember
    IN  IF best.threw
        THEN [st EXCEPT !.threw = TRUE, !.error = best.error]
        ELSE IF Accepts(best)
        THEN LET ms2 == [st.members EXCEPT ![b] = AddHours(@, task)]
             IN [threw |-> FALSE, error |-> "",
                 members |-> ms2,
                 tasks |-> [st.tasks EXCEPT
                               ![t].assignedTo = Wrap(st.members[b].id)],
                 assignments |-> Append(st.assignments,
                        AssignedRecord(task, st.members[b], best.bestScore)),
                 steps |-> Append(st.steps,
                        [task |-> t, before |-> Workloads(st.members),
                         bestMember |-> b, bestScore |-> best.bestScore,
                         assigned |-> TRUE, after |-> Workloads(ms2)])]
        ELSE [st EXCEPT
                 !.assignments = Append(@, UnassignedRecord(task)),
                 !.steps = Append(@,
                        [task |-> t, before |-> Workloads(st.members),
                         bestMember |-> b, bestScore |-> best.bestScore,
                         assigned |-> FALSE, after |-> Workloads(st.members)])]
    : best \in {FindBest(st.members, st.tasks[t], 1,
                         [bestMember |-> 0, bestScore |-> Num(-1),
                          threw |-> FALSE, error |-> ""])} })

\* Variant: the loop ends at the first task that cannot be assigned.
RECURSIVE AllocLoop_StopsAtUnassigned(_, _, _)
AllocLoop_StopsAtUnassigned(st, order, k) ==
    IF k > Len(order) THEN st
    ELSE Only({ IF nx.threw THEN nx
                ELSE IF nx.steps[Len(nx.steps)].assigned
                THEN AllocLoop_StopsAtUnassigned(nx, order, k + 1)
                ELSE nx
                : nx \in {AllocStep(st, order[k])} })

\* for (const task of sortedTasks), from position k of the order on; an
\* exception ends it.
RECURSIVE AllocLoop(_, _, _)
AllocLoop(st, order, k) ==
    IF k > Len(order) \/ st.threw THEN st
    ELSE Only({ AllocLoop(nx, order, k + 1)
                : nx \in {AllocStep(st, order[k])} })

\* allocateTasks(members, tasks): the returned assignments, with the members
\* and tasks as the run leaves them and the record of its iterations.  threw
\* tells that the run ended in an exception; the assignments are then lost
\* to the caller, the changes to the members and the tasks are not.
allocateTasks(ms, ts) ==
    LET order == sortedTasks(ts)
        run   == AllocLoop([members |-> ResetWorkloads(ms), tasks |-> ts,
                            assignments |-> <<>>, steps |-> <<>>,
                            threw |-> FALSE, error |-> ""],
                           order, 1)
    IN  [run EXCEPT !.tasks = TasksAfterSort(@, order)]

----------------------------------------------------------------------------
\* POST /api/allocate: the statistics and the member summaries.  The values
\* are those handed to res.json; "NaN", "Infinity" and "-Infinity" stand for
\* the numbers that are no integers.

\* The match score of a record is Infinity.
IsInfinity(matchScore) == ToString(matchScore) = ToString("Infinity")

\* assignments.filter(a => a.matchScore > 0)
Positive(assignments) ==
    {i \in DOMAIN assignments :
        \/ IsInfinity(assignments[i].matchScore)
        \/ assignments[i].matchScore > 0}

\* The sum of the finite scores among the positive ones, from record i on.
RECURSIVE SumScores(_, _)
SumScores(assignments, i) ==
    IF i > Len(assignments) THEN 0
    ELSE (IF i \in Positive(assignments)
             /\ ~ IsInfinity(assignments[i].matchScore)
          THEN assignments[i].matchScore ELSE 0)
         + SumScores(assignments, i + 1)

\* .reduce((sum, a) => sum + a.matchScore, 0) / n: Infinity once a score is.
SumOver(assignments, n) ==
    IF \E i \in DOMAIN assignments : IsInfinity(assignments[i].matchScore)
    THEN Infinity(FALSE)
    ELSE Quotient(SumScores(assignments, 1), n)

\* assignments.filter(a => a.memberId !== null).length
AssignedCount(assignments) ==
    Cardinality({i \in DOMAIN assignments : assignments[i].memberId # null})

\* Variant: the sum is divided by the number of records it adds up.
AvgMatchScore_OverPositive(assignments) ==
    LET avg == SumOver(assignments, Cardinality(Positive(assignments)))
    IN  IF avg.nan THEN 0 ELSE Round(avg)

\* sum / assignedTasks || 0, then Math.round.  0 / 0 is NaN, which || turns
\* into 0; a positive sum over 0 is Infinity, which stays.
AvgMatchScore(assignments) ==
    LET avg == SumOver(assignments, AssignedCount(assignments))
    IN  IF avg.nan THEN 0 ELSE Round(avg)

\* The stats of the response; efficiency is NaN when there are no tasks.
Stats(ts, assignments) ==
    LET totalTasks == Len(ts)
        assignedTasks == AssignedCount(assignments)
    IN  [totalTasks |-> totalTasks,
         assignedTasks |-> assignedTasks,
         unassignedTasks |-> totalTasks - assignedTasks,
         avgMatchScore |-> AvgMatchScore(assignments),
         efficiency |-> Round(Times(Quotient(assignedTasks, totalTasks),
                                    100))]

\* One entry of members in the response; utilization is NaN or Infinity for
\* a maxCapacity of 0.
MemberSummary(m) ==
    [id |-> m.id, name |-> m.name,
     currentWorkload |-> m.currentWorkload, maxCapacity |-> m.maxCapacity,
     utilization |-> Round(Times(Quotient(m.currentWorkload, m.maxCapacity),
                                 100))]

AllocateResponse(run) ==
    [kind |-> "allocate",
     assignments |-> run.assignments,
     stats |-> Stats(run.tasks, run.assignments),
     members |-> [j \in DOMAIN run.members |-> MemberSummary(run.members[j])]]

----------------------------------------------------------------------------
\* Request bodies the model posts.

\* POST /api/members.  The first body leaves currentWorkload to the handler;
\* the second sets it, which the handler's spread lets through; the third
\* has no skillLevels.
MemberBodies ==
    { [name |-> "Dave Lee",
       skills |-> <<"React", "JavaScript">>,
       skillLevels |-> ("React" :> 12 @@ "JavaScript" :> 12),
       maxCapacity |-> 8],
      [name |-> "Erin Moore",
       skills |-> <<"React", "JavaScript", "CSS", "Rust">>,
       skillLevels |-> ("React" :> 8 @@ "JavaScript" :> 9 @@ "CSS" :> 7
                        @@ "Rust" :> 0),
       currentWorkload |-> 50,
       maxCapacity |-> 40],
      [name |-> "Gus Hale",
       skills |-> <<"Rust">>,
       maxCapacity |-> 5] }

\* POST /api/tasks.  The handler stores whatever it is sent: one body asks
\* for a skill named like a property of Object.prototype, the last one has
\* no requiredSkills.
TaskBodies ==
    { [title |-> "Port Parser",
       requiredSkills |-> <<"Rust">>,
       estimatedHours |-> 4, priority |-> "low",
       deadline |-> <<2025, 8, 15>>],
      [title |-> "Migrate Services",
       requiredSkills |-> <<"Node.js">>,
       estimatedHours |-> 30, priority |-> "high",
       deadline |-> <<2025, 7, 31>>],
      [title |-> "Bind Native Module",
       requiredSkills |-> <<"JavaScript", "Rust">>,
       estimatedHours |-> 6, priority |-> "medium",
       deadline |-> <<2025, 8, 1>>],
      [title |-> "Wrap Constructor",
       requiredSkills |-> <<"React", "constructor">>,
       estimatedHours |-> 2, priority |-> "high",
       deadline |-> <<2025, 9, 2>>],
      [title |-> "Triage Backlog",
       estimatedHours |-> 2, priority |-> "low",
       deadline |-> <<2025, 8, 31>>] }

----------------------------------------------------------------------------
\* The state machine.

\* The store as loaded; the clock reads some value above the sample ids.
Init ==
    /\ members = teamData.members
    /\ tasks = teamData.tasks
    /\ now = 1000
    /\ response = [kind |-> "none"]
    /\ steps = <<>>

\* Time passes between two requests.
Tick ==
    /\ now < 1000 + MaxElapsed
    /\ now' = now + 1
    /\ UNCHANGED <<members, tasks, response, steps>>

\* POST /api/members: { id: Date.now(), currentWorkload: 0, ...req.body }
AddMember ==
    /\ Len(members) < MaxMembers
    /\ \E body \in MemberBodies :
         LET newMember == body @@ [id |-> now, currentWorkload |-> 0]
         IN  /\ members' = Append(members, newMember)
             /\ response' = [kind |-> "member", body |-> newMember]
    /\ steps' = <<>>
    /\ UNCHANGED <<tasks, now>>

\* POST /api/tasks: { id: Date.now(), assignedTo: null, ...req.body }
AddTask ==
    /\ Len(tasks) < MaxTasks
    /\ \E body \in TaskBodies :
         LET newTask == body @@ [id |-> now, assignedTo |-> null]
         IN  /\ tasks' = Append(tasks, newTask)
             /\ response' = [kind |-> "task", body |-> newTask]
    /\ steps' = <<>>
    /\ UNCHANGED <<members, now>>

\* catch (error): status 500 with the message of the TypeError.
ErrorResponse(message) ==
    [kind |-> "error", status |-> 500, error |-> message]

\* POST /api/allocate.  The run works on the stored members and tasks, so
\* what it changed before an exception stays changed.
Allocate ==
    \E run \in {allocateTasks(members, tasks)} :
        /\ members' = run.members
        /\ tasks' = run.tasks
        /\ response' = IF run.threw THEN ErrorResponse(run.error)
                                    ELSE AllocateResponse(run)
        /\ steps' = run.steps
        /\ UNCHANGED now

\* Variant: the tasks keep their assignment.
ClearAssignments_Kept(ts) == ts

\* teamData.tasks.forEach(task => task.assignedTo = null)
ClearAssignments(ts) ==
    [t \in DOMAIN ts |-> [ts[t] EXCEPT !.assignedTo = null]]

\* POST /api/reset
Reset ==
    /\ members' = [j \in DOMAIN members |->
                      [members[j] EXCEPT !.currentWorkload = 0]]
    /\ tasks' = ClearAssignments(tasks)
    /\ response' = [kind |-> "reset",
                    message |-> "All assignments reset successfully"]
    /\ steps' = <<>>
    /\ UNCHANGED now

Next == Tick \/ AddMember \/ AddTask \/ Allocate \/ Reset

Spec == Init /\ [][Next]_vars

----------------------------------------------------------------------------
\* allocateTasks and the statistics as functions of the lists they are given:
\* the store holds any short list of the members and any short list of the
\* tasks below, without repetition.

MaxInputMembers == 2
MaxInputTasks == 3

\* The sequences of length at most n of distinct elements of S.
ListsOf(S, n) ==
    UNION { {l \in [1..k -> S] : \A i, j \in 1..k : l[i] = l[j] => i = j}
            : k \in 0..n }

\* The sample members, and one whose only skill is at level 1.
InputMembers ==
    Range(teamData.members)
    \cup { [id |-> 4, name |-> "Frank Young",
             skills |-> <<"Go">>, skillLevels |-> ("Go" :> 1),
             currentWorkload |-> 0, maxCapacity |-> 45] }

\* The sample tasks, one that nobody has the skill for, and three for the
\* level-1 skill: after the first the member's score is below one half, after
\* the first two the workload penalty exceeds ten times the level.
InputTasks ==
    Range(teamData.tasks)
    \cup { [id |-> 4, title |-> "Port Parser",
             requiredSkills |-> <<"Rust">>,
             estimatedHours |-> 4, priority |-> "low",
             deadline |-> <<2025, 8, 15>>, assignedTo |-> null],
           [id |-> 5, title |-> "Rewrite Scheduler",
             requiredSkills |-> <<"Go">>,
             estimatedHours |-> 22, priority |-> "high",
             deadline |-> <<2025, 8, 1>>, assignedTo |-> null],
           [id |-> 6, title |-> "Tune Scheduler",
             requiredSkills |-> <<"Go">>,
             estimatedHours |-> 2, priority |-> "low",
             deadline |-> <<2025, 8, 30>>, assignedTo |-> null],
           [id |-> 7, title |-> "Profile Scheduler",
             requiredSkills |-> <<"Go">>,
             estimatedHours |-> 2, priority |-> "low",
             deadline |-> <<2025, 8, 31>>, assignedTo |-> null] }

InitInputs ==
    /\ members \in ListsOf(InputMembers, MaxInputMembers)
    /\ tasks \in ListsOf(InputTasks, MaxInputTasks)
    /\ now = 1000
    /\ response = [kind |-> "none"]
    /\ steps = <<>>

NextInputs == Allocate \/ Reset

SpecInputs == InitInputs /\ [][NextInputs]_vars

----------------------------------------------------------------------------
\* Notions the properties below are stated with.

Allocated == response.kind = "allocate"

\* Two scores are the same number.
Eq(a, b) == ~ a.nan /\ ~ b.nan /\ a = b

\* The task and the record of iteration k of the last run.
StepTask(k) == tasks[steps[k].task]
StepRecord(k) == response.assignments[k]

\* Member j as iteration k found it: with the workload committed so far.
MemberAt(k, j) == [members[j] EXCEPT !.currentWorkload = steps[k].before[j]]

\* Member j would be over capacity with the task of iteration k.
OverCapacity(k, j) ==
    steps[k].before[j] + StepTask(k).estimatedHours > members[j].maxCapacity

ScoreAt(k, j) == calculateMatchScore(MemberAt(k, j), StepTask(k))

PriorityRank(p) == CASE p = "high" -> 3 [] p = "medium" -> 2 [] p = "low" -> 1

\* Deadline a is not later than deadline b, on <<year, month, day>>.
NotLater(a, b) ==
    \/ a[1] < b[1]
    \/ a[1] = b[1] /\ a[2] < b[2]
    \/ a[1] = b[1] /\ a[2] = b[2] /\ a[3] <= b[3]

----------------------------------------------------------------------------
\* C1  Capacity invariant: after every iteration of an allocation run and
\* when Allocate has returned, every member's currentWorkload is at most the
\* member's maxCapacity, whatever the workloads were when the run began.
CapacityInvariant ==
    Allocated =>
        /\ \A j \in DOMAIN members :
               members[j].currentWorkload <= members[j].maxCapacity
        /\ \A k \in DOMAIN steps : \A j \in DOMAIN members :
               steps[k].after[j] <= members[j].maxCapacity

\* A run has given a task to the member that was posted with a workload above
\* its capacity.
CapacityWitness ==
    /\ Allocated
    /\ \E j \in DOMAIN members :
           /\ members[j].name = "Erin Moore"
           /\ members[j].currentWorkload > 0
           /\ \E k \in DOMAIN steps : steps[k].assigned /\ steps[k].bestMember = j

\* C2  Priority ordering: the records of a run are those of the tasks in
\* processing order; a task of higher priority comes before every task of
\* lower priority, and among tasks of equal priority one with an earlier
\* deadline comes first, wherever the tasks stand in the stored list.
PriorityOrdering ==
    Allocated =>
        /\ Len(steps) = Len(response.assignments)
        /\ \A k \in DOMAIN steps : StepRecord(k).taskId = StepTask(k).id
        /\ \A i, k \in DOMAIN steps :
               i < k =>
                  LET a == StepTask(i)
                      b == StepTask(k)
                  IN  \/ PriorityRank(a.priority) > PriorityRank(b.priority)
                      \/ /\ a.priority = b.priority
                         /\ NotLater(a.deadline, b.deadline)

\* A run has processed a task before one that stands earlier in the store and
\* has an earlier deadline but a lower priority, and has ordered two tasks of
\* one priority whose deadlines lie in different months.
PriorityWitness ==
    /\ Allocated
    /\ \E i, k \in DOMAIN steps :
           /\ i < k
           /\ steps[i].task > steps[k].task
           /\ PriorityRank(StepTask(i).priority) > PriorityRank(StepTask(k).priority)
           /\ ~ NotLater(StepTask(i).deadline, StepTask(k).deadline)
    /\ \E i, k \in DOMAIN steps :
           /\ i < k
           /\ StepTask(i).priority = StepTask(k).priority
           /\ StepTask(i).deadline[2] < StepTask(k).deadline[2]

\* C3  Capacity exclusion: the member a task is given to is never one whose
\* committed workload plus the task's hours exceeds its capacity, whatever
\* the scores; a member whom the task would fill exactly is still considered,
\* so the task is then assigned with a score at least that member's.
CapacityExclusion ==
    Allocated =>
        \A k \in DOMAIN steps :
            /\ steps[k].assigned => ~ OverCapacity(k, steps[k].bestMember)
            /\ \A j \in DOMAIN members :
                   ( /\ steps[k].before[j] + StepTask(k).estimatedHours
                          = members[j].maxCapacity
                     /\ Gt(ScoreAt(k, j), Zero) )
                   => /\ steps[k].assigned
                      /\ ~ Gt(ScoreAt(k, j), steps[k].bestScore)

\* In one run a task went to a member it filled exactly, and for a later task
\* that member, over capacity, had a score above the score of the member chosen.
ExclusionWitness ==
    /\ Allocated
    /\ \E i, k \in DOMAIN steps :
           /\ i < k
           /\ steps[i].assigned
           /\ steps[i].after[steps[i].bestMember]
                 = members[steps[i].bestMember].maxCapacity
           /\ steps[k].assigned
           /\ OverCapacity(k, steps[i].bestMember)
           /\ Gt(ScoreAt(k, steps[i].bestMember), steps[k].bestScore)

\* C4 as stated: a task that requires some competency that is in no member's
\* skill map gets an unassigned record.
UnknownSkillUnassigned ==
    Allocated =>
        \A k \in DOMAIN steps :
            (\E i \in DOMAIN StepTask(k).requiredSkills :
                 \A j \in DOMAIN members :
                     \/ "skillLevels" \notin DOMAIN members[j]
                     \/ StepTask(k).requiredSkills[i]
                            \notin DOMAIN members[j].skillLevels)
            => StepRecord(k).memberId = null

\* No member holds any of the task's required competencies at a level other
\* than 0.
NoSkillMatch(task) ==
    \A i \in DOMAIN task.requiredSkills : \A j \in DOMAIN members :
        ~ ( /\ "skillLevels" \in DOMAIN members[j]
            /\ task.requiredSkills[i] \in DOMAIN members[j].skillLevels
            /\ members[j].skillLevels[task.requiredSkills[i]] # 0 )

\* C4  Zero-skill-match yields unassigned: a task none of whose required
\* competencies is held by any member at a level other than 0 gets a record
\* with memberId null, memberName "Unassigned", matchScore 0 and the reason
\* string, and changes no member's workload.
ZeroSkillMatchUnassigned ==
    Allocated =>
        \A k \in DOMAIN steps :
            NoSkillMatch(StepTask(k)) =>
                /\ StepRecord(k) =
                       [taskId |-> StepTask(k).id,
                        taskTitle |-> StepTask(k).title,
                        memberId |-> null, memberName |-> "Unassigned",
                        matchScore |-> 0,
                        estimatedHours |-> StepTask(k).estimatedHours,
                        reason |-> "No available member with required skills"]
                /\ steps[k].after = steps[k].before

\* A run has met a task with no skill match while a member with free capacity
\* lists the required competency at level 0.
ZeroSkillWitness ==
    /\ Allocated
    /\ \E k \in DOMAIN steps :
           /\ NoSkillMatch(StepTask(k))
           /\ \E j \in DOMAIN members :
                  /\ ~ OverCapacity(k, j)
                  /\ "skillLevels" \in DOMAIN members[j]
                  /\ \E i \in DOMAIN StepTask(k).requiredSkills :
                         StepTask(k).requiredSkills[i]
                             \in DOMAIN members[j].skillLevels

\* The store as freshly loaded: no workload, no assignment.
FreshMembers(ms) == [j \in DOMAIN ms |-> [ms[j] EXCEPT !.currentWorkload = 0]]
FreshTasks(ts) == [t \in DOMAIN ts |-> [ts[t] EXCEPT !.assignedTo = null]]

\* C5  Re-run idempotence: the response of Allocate and the members and tasks
\* it leaves are those of Allocate on the same members and tasks freshly
\* loaded, whatever the workloads and the assignedTo values were on entry.
EntryIndependence ==
    Allocated =>
        LET run == allocateTasks(FreshMembers(members), FreshTasks(tasks))
        IN  /\ response = AllocateResponse(run)
            /\ members = run.members
            /\ tasks = run.tasks

\* C6  ResetWorkloads sets every member's currentWorkload to 0 and every
\* task's assignedTo to null and changes nothing else: the members and the
\* tasks stay the same in number, order and every other field.
ResetEffect ==
    [][ (response'.kind = "reset" /\ now' = now) =>
          /\ Len(members') = Len(members)
          /\ \A j \in DOMAIN members :
                 /\ members'[j].currentWorkload = 0
                 /\ [members'[j] EXCEPT !.currentWorkload = 0]
                      = [members[j] EXCEPT !.currentWorkload = 0]
          /\ Len(tasks') = Len(tasks)
          /\ \A t \in DOMAIN tasks :
                 /\ tasks'[t].assignedTo = null
                 /\ [tasks'[t] EXCEPT !.assignedTo = null]
                      = [tasks[t] EXCEPT !.assignedTo = null] ]_vars

\* A reset has answered in a store that holds an added member and an added task.
ResetWitness ==
    /\ response.kind = "reset"
    /\ Len(members) > Len(teamData.members)
    /\ Len(tasks) > Len(teamData.tasks)
    /\ \A j \in DOMAIN members : members[j].currentWorkload = 0
    /\ \A t \in DOMAIN tasks : tasks[t].assignedTo = null

IsExample ==
    /\ Len(members) = 1 /\ members[1].name = "Alice Johnson"
    /\ Len(tasks) = 1 /\ tasks[1].title = "Build Login Component"

\* C7  Example scenario: with Alice as the only member and "Build Login
\* Component" as the only task, Alice's score for the task is 85, the task
\* is assigned to Alice with matchScore 85 and Alice's workload becomes 8.
ExampleScenario ==
    (Allocated /\ IsExample) =>
        /\ Eq(steps[1].bestScore, Num(85))
        /\ response.assignments =
               << [taskId |-> 1, taskTitle |-> "Build Login Component",
                   memberId |-> <<1>>, memberName |-> "Alice Johnson",
                   matchScore |-> 85, estimatedHours |-> 8] >>
        /\ members[1].currentWorkload = 8
        /\ tasks[1].assignedTo = <<1>>

ExampleWitness ==
    /\ Allocated
    /\ IsExample
    /\ steps[1].assigned
    /\ members[1].skillLevels = ("React" :> 8 @@ "JavaScript" :> 9 @@ "CSS" :> 7)
    /\ members[1].maxCapacity = 40
    /\ tasks[1].requiredSkills = <<"React", "JavaScript">>

\* The sum of f over the finite set S.
RECURSIVE SetSum(_, _)
SetSum(S, f) ==
    IF S = {} THEN 0
    ELSE LET x == CHOOSE y \in S : TRUE IN f[x] + SetSum(S \ {x}, f)

\* C8  avgMatchScore is the mean of matchScore over the records with a
\* memberId, rounded to the nearest integer (a half upwards), and 0 when no
\* record has a memberId.
AvgOverAssigned ==
    Allocated =>
        LET A   == {i \in DOMAIN response.assignments :
                       response.assignments[i].memberId # null}
            n   == Cardinality(A)
            sum == SetSum(A, [i \in A |-> response.assignments[i].matchScore])
            avg == response.stats.avgMatchScore
        IN  IF A = {} THEN avg = 0
            ELSE /\ 2 * n * avg - n <= 2 * sum
                 /\ 2 * sum < 2 * n * avg + n

\* A run has produced an assigned record with a positive matchScore, an
\* assigned record whose matchScore rounded to 0, and an unassigned record.
AvgWitness ==
    /\ Allocated
    /\ \E i, k, l \in DOMAIN response.assignments :
           /\ response.assignments[i].memberId # null
           /\ response.assignments[i].matchScore > 0
           /\ response.assignments[k].memberId # null
           /\ response.assignments[k].matchScore = 0
           /\ response.assignments[l].memberId = null
    /\ response.stats.avgMatchScore > 0

\* C10  Greedy selection, first maximum wins: every iteration starts from the
\* workloads the earlier iterations committed (all 0 for the first), and a
\* task that is assigned goes to a member that passes the capacity check,
\* with a score no eligible member exceeds and that no eligible member earlier
\* in the list equals; only that member's workload grows, by the task's hours.
GreedyFirstMax ==
    Allocated =>
        \A k \in DOMAIN steps :
            /\ steps[k].before =
                   IF k = 1 THEN [j \in DOMAIN members |-> 0]
                   ELSE steps[k - 1].after
            /\ steps[k].assigned =>
                 LET b == steps[k].bestMember
                 IN  /\ b \in DOMAIN members
                     /\ ~ OverCapacity(k, b)
                     /\ Eq(steps[k].bestScore, ScoreAt(k, b))
                     /\ StepRecord(k).memberId = Wrap(members[b].id)
                     /\ \A j \in DOMAIN members :
                            ~ OverCapacity(k, j) =>
                               /\ ~ Gt(ScoreAt(k, j), ScoreAt(k, b))
                               /\ j < b => Gt(ScoreAt(k, b), ScoreAt(k, j))
                     /\ steps[k].after =
                            [steps[k].before EXCEPT
                                ![b] = @ + StepTask(k).estimatedHours]

\* A task went to the earlier of two eligible members with the same top score,
\* and a later task of the run was scored with that member's new workload.
GreedyWitness ==
    /\ Allocated
    /\ \E k \in DOMAIN steps :
           /\ steps[k].assigned
           /\ \E j \in DOMAIN members :
                  /\ j > steps[k].bestMember
                  /\ ~ OverCapacity(k, j)
                  /\ Eq(ScoreAt(k, j), steps[k].bestScore)
           /\ \E i \in DOMAIN steps :
                  /\ i > k
                  /\ steps[i].assigned
                  /\ steps[i].before[steps[k].bestMember] > 0
                  /\ steps[i].bestMember # steps[k].bestMember
                  /\ Gt(calculateMatchScore(
                           [members[steps[k].bestMember] EXCEPT !.currentWorkload = 0],
                           StepTask(i)),
                        steps[i].bestScore)

\* The member lists the competency at a level other than 0.
Holds(member, competency) ==
    /\ "skillLevels" \in DOMAIN member
    /\ competency \in DOMAIN member.skillLevels
    /\ member.skillLevels[competency] # 0

\* C11  A task is left unassigned only when every member fails the capacity
\* check or holds none of the required competencies: whenever some member
\* with enough remaining capacity holds a required competency, the task is
\* assigned.
SkilledMemberAssigned ==
    Allocated =>
        \A k \in DOMAIN steps :
            (\E j \in DOMAIN members :
                 /\ ~ OverCapacity(k, j)
                 /\ \E i \in DOMAIN StepTask(k).requiredSkills :
                        Holds(members[j], StepTask(k).requiredSkills[i]))
            => steps[k].assigned

\* The score of section 4.1 of the specification: every required competency
\* whose name is a key of the member's skill map counts, whatever its level.
ReferenceScore(member, task) ==
    LET matched == {i \in DOMAIN task.requiredSkills :
                        task.requiredSkills[i] \in DOMAIN member.skillLevels}
        sum     == SetSum(matched,
                          [i \in matched |->
                               member.skillLevels[task.requiredSkills[i]]])
        n       == Cardinality(matched)
    IN  IF matched = {} THEN Zero
        ELSE Max0(Minus(Times(Quotient(sum, n), 10),
                        Times(Quotient(member.currentWorkload,
                                       member.maxCapacity), 20)))

\* C12  Scorer reference: for every stored member and task the score is 0
\* when the member's skill map has none of the required names, and otherwise
\* max(0, avgLevel * 10 - 20 * currentWorkload / maxCapacity) with avgLevel
\* the mean level over the required names the map has; it is never negative
\* and has no upper clamp.
ScorerReference ==
    \A j \in DOMAIN members : \A t \in DOMAIN tasks :
        ("requiredSkills" \in DOMAIN tasks[t] /\ "skillLevels" \in DOMAIN members[j])
        => /\ Eq(calculateMatchScore(members[j], tasks[t]),
                 ReferenceScore(members[j], tasks[t]))
           /\ ~ Gt(Zero, calculateMatchScore(members[j], tasks[t]))

\* C13  Immediately after an Allocate the assignedTo of every task agrees with
\* the run's record for the task: the record's memberId when the task was
\* assigned, null when it was not.
AssignedToAgrees ==
    Allocated =>
        \A k \in DOMAIN steps : StepTask(k).assignedTo = StepRecord(k).memberId

\* C14  An unassignable task never aborts the batch: a run returns exactly
\* one record for every stored task, none dropped and none twice, each with
\* the id, title and hours of its task.
BatchComplete ==
    Allocated =>
        /\ Len(response.assignments) = Len(tasks)
        /\ Len(steps) = Len(tasks)
        /\ \A t \in DOMAIN tasks :
               Cardinality({k \in DOMAIN steps : steps[k].task = t}) = 1
        /\ \A k \in DOMAIN steps :
               /\ StepRecord(k).taskId = StepTask(k).id
               /\ StepRecord(k).taskTitle = StepTask(k).title
               /\ StepRecord(k).estimatedHours = StepTask(k).estimatedHours
        /\ response.stats.totalTasks = Len(tasks)
        /\ response.stats.assignedTasks + response.stats.unassignedTasks
              = Len(tasks)

\* A run has assigned a task after one it could not assign.
BatchWitness ==
    /\ Allocated
    /\ \E i, k \in DOMAIN steps :
           /\ i < k
           /\ ~ steps[i].assigned
           /\ StepRecord(i).memberId = null
           /\ steps[k].assigned
           /\ StepRecord(k).memberId # null

\* C15  A run that fails part-way is reported as one failure without partial
\* results: the response carries the error and no assignment records, and
\* the run leaves no assignment of its own behind, so that every workload
\* and every assignedTo is either what it was before the run or cleared.
FailureLeavesNoPartialResult ==
    [][ (response'.kind = "error" /\ now' = now) =>
          /\ "error" \in DOMAIN response'
          /\ "assignments" \notin DOMAIN response'
          /\ \A j \in DOMAIN members :
                 members'[j].currentWorkload
                     \in {members[j].currentWorkload, 0}
          /\ \A t \in DOMAIN tasks :
                 tasks'[t].assignedTo \in {tasks[t].assignedTo, null} ]_vars

\* C16  Allocate changes nothing but currentWorkload and assignedTo: the
\* stored lists keep their length and order, and every member and every
\* task keeps all its other fields, whether the run answers or fails.
AllocateFrame ==
    [][ (response'.kind \in {"allocate", "error"} /\ now' = now) =>
          /\ Len(members') = Len(members)
          /\ \A j \in DOMAIN members :
                 [members'[j] EXCEPT !.currentWorkload = 0]
                     = [members[j] EXCEPT !.currentWorkload = 0]
          /\ Len(tasks') = Len(tasks)
          /\ \A t \in DOMAIN tasks :
                 [tasks'[t] EXCEPT !.assignedTo = null]
                     = [tasks[t] EXCEPT !.assignedTo = null] ]_vars

\* A run has processed the tasks in another order than the stored one, and
\* has assigned a task that it moved.
FrameWitness ==
    /\ Allocated
    /\ \E k \in DOMAIN steps :
           /\ steps[k].task # k
           /\ steps[k].assigned
           /\ StepTask(k).assignedTo = StepRecord(k).memberId

\* No two stored members have the same id.
UniqueMemberIds ==
    \A i, j \in DOMAIN members : members[i].id = members[j].id => i = j

\* The records of the last run that name member j.
RecordsOf(j) ==
    {k \in DOMAIN response.assignments :
         response.assignments[k].memberId = Wrap(members[j].id)}

RecordHours == [k \in DOMAIN response.assignments |->
                    response.assignments[k].estimatedHours]

\* C17  Workload accounting: when the member ids are unique, after an
\* Allocate every member's currentWorkload is the sum of estimatedHours over
\* the run's records that name the member (0 when none does), and the
\* workloads add up to the hours of the records with a memberId.
WorkloadAccounting ==
    (Allocated /\ UniqueMemberIds) =>
        /\ \A j \in DOMAIN members :
               members[j].currentWorkload = SetSum(RecordsOf(j), RecordHours)
        /\ SetSum(DOMAIN members, Workloads(members))
             = SetSum({k \in DOMAIN response.assignments :
                           response.assignments[k].memberId # null},
                      RecordHours)

\* A run has given two tasks to one member and none to another.
AccountingWitness ==
    /\ Allocated
    /\ UniqueMemberIds
    /\ \E j \in DOMAIN members :
           /\ Cardinality(RecordsOf(j)) >= 2
           /\ members[j].currentWorkload > 0
    /\ \E j \in DOMAIN members :
           /\ RecordsOf(j) = {}
           /\ members[j].currentWorkload = 0

\* The stored tasks whose assignedTo is the id of member j.
TasksOf(j) == {t \in DOMAIN tasks : tasks[t].assignedTo = Wrap(members[j].id)}

\* C18  Store consistency: in every state reached by adding members with
\* workload 0, adding unassigned tasks, allocating and resetting, every
\* member's currentWorkload is the sum of estimatedHours of the stored tasks
\* whose assignedTo is the member's id.
StoreConsistency ==
    (\A j \in DOMAIN members : members[j].name # "Erin Moore") =>
        \A j \in DOMAIN members :
            members[j].currentWorkload
                = SetSum(TasksOf(j),
                         [t \in DOMAIN tasks |-> tasks[t].estimatedHours])

====
